---- MODULE Spec2Model ----
(***************************************************************************)
(* MySQLHandler (mindsdb/integrations/mysql_handler/mysql_handler.py):     *)
(* the connection handle a handler keeps in self.connection, the calls     *)
(* connect / check_status / run_native_query / select_query / select_into  *)
(* / join, and the server and tables they talk to.                         *)
(*                                                                         *)
(* A handle is "None" (self.connection = None), "open" (connected),        *)
(* "lost" (never closed by the client, but the server went away) or        *)
(* "closed" (close() was called on it).                                    *)
(***************************************************************************)
EXTENDS Integers, Sequences, FiniteSets, TLC

MaxRows == 1      \* rows per source table
MaxVal == 1       \* cell values are 0..MaxVal
MaxLeaked == 1    \* handles a handler opened, dropped and never closed
MaxDest == 1      \* rows kept in the destination table of a join

Connectors == {"h1", "h2"}
Values == 0 .. MaxVal
ColumnOrder == <<"a", "b">>
Columns == {"a", "b"}
TableNames == {"t1", "t2"}
DestName == "tj"
Rows == [Columns -> Values]

VARIABLES handlers, audited, connection, leaked, log, quiet, serverUp, tables, dest, joined

vars == <<handlers, audited, connection, leaked, log, quiet, serverUp, tables, dest, joined>>

Range(s) == {s[i] : i \in 1 .. Len(s)}

Count(s, x) == Cardinality({i \in 1 .. Len(s) : s[i] = x})

IndexOf(s, x) == IF x \in Range(s) THEN CHOOSE i \in 1 .. Len(s) : s[i] = x /\ \A j \in 1 .. (i - 1) : s[j] # x ELSE 0

SeqsUpTo(S, n) == UNION {[1 .. k -> S] : k \in 0 .. n}

(***************************************************************************)
(* The world the methods act on, as one record, so that a method that      *)
(* calls another is the composition of the two.                            *)
(***************************************************************************)
World == [audited |-> audited, connection |-> connection, leaked |-> leaked, log |-> log, quiet |-> quiet, serverUp |-> serverUp, tables |-> tables, dest |-> dest]

(***************************************************************************)
(* History: the last two calls made on each audited handler.               *)
(***************************************************************************)
Entry(op, before, raised, cause, kind, ret, probe, trace, stmt) == [op |-> op, before |-> before, raised |-> raised, cause |-> cause, kind |-> kind, ret |-> ret, probe |-> probe, trace |-> trace, stmt |-> stmt, up |-> TRUE, quiet |-> TRUE]

Record(w, self, e) ==
    LET e2 == [e EXCEPT !.up = w.serverUp, !.quiet = w.quiet[self]]
        l2 == Append(w.log[self], e2)
    IN IF self \in w.audited
       THEN [w EXCEPT !.log[self] = IF Len(l2) > 2 THEN Tail(l2) ELSE l2, !.quiet[self] = TRUE]
       ELSE w

(***************************************************************************)
(* The server: statements and their execution.                             *)
(***************************************************************************)
Targets == {<<"a">>, <<"a", "b">>, <<"*">>}
FromStmts == {<<"t1">>, <<"test", "t2">>}
Wheres == {<<>>, <<0>>}

Query(kind, targets, table, where) == [kind |-> kind, targets |-> targets, table |-> table, where |-> where]

Queries == {Query("ddl", <<>>, "", <<>>), Query("bad", <<>>, "", <<>>), Query("select", <<"*">>, "t1", <<>>)}

Project(row, targets) == IF targets = <<"*">> THEN row ELSE [c \in Range(targets) |-> row[c]]

Matching(rows, where) == SelectSeq(rows, LAMBDA r : where = <<>> \/ r["a"] = where[1])

Execute(tbls, q) ==
    IF q.kind = "ddl" THEN [raised |-> FALSE, hasResult |-> FALSE, rows |-> <<>>]
    ELSE IF q.kind = "select" /\ q.table \in DOMAIN tbls /\ Range(q.targets) \subseteq Columns \cup {"*"}
    THEN LET m == Matching(tbls[q.table], q.where)
         IN [raised |-> FALSE, hasResult |-> TRUE, rows |-> [i \in 1 .. Len(m) |-> Project(m[i], q.targets)]]
    ELSE [raised |-> TRUE, hasResult |-> FALSE, rows |-> <<>>]

(***************************************************************************)
(* MySQLHandler.connect: the new handle replaces self.connection; the      *)
(* handle it replaces is not closed.                                       *)
(***************************************************************************)
connect_not_stored(w, self) ==
    IF ~w.serverUp
    THEN [w |-> w, raised |-> "ConnectionError"]
    ELSE [w |-> [w EXCEPT !.leaked[self] = @ + 1], raised |-> "none"]

connect(w, self) ==
    IF ~w.serverUp
    THEN [w |-> w, raised |-> "ConnectionError"]
    ELSE [w |-> [w EXCEPT !.connection[self] = "open",
                          !.leaked[self] = IF w.connection[self] \in {"open", "lost"} THEN @ + 1 ELSE @],
          raised |-> "none"]

(***************************************************************************)
(* MySQLHandler.check_status: is_connected() inside "with closing(con)",   *)
(* inside try / except Exception.                                          *)
(***************************************************************************)
closing_probe_left_open(con) ==
    IF con = "None"
    THEN [raised |-> "AttributeError", connected |-> FALSE, con |-> "None"]
    ELSE [raised |-> "none", connected |-> (con = "open"), con |-> con]

closing_probe(con) ==
    IF con = "None"
    THEN [raised |-> "AttributeError", connected |-> FALSE, con |-> "None"]
    ELSE [raised |-> "none", connected |-> (con = "open"), con |-> "closed"]

check_status_unprobed(w, self) ==
    LET p == closing_probe(w.connection[self])
    IN [w |-> [w EXCEPT !.connection[self] = p.con],
        raised |-> "none",
        connected |-> (w.connection[self] # "None")]

check_status(w, self) ==
    LET p == closing_probe(w.connection[self])
    IN [w |-> [w EXCEPT !.connection[self] = p.con],
        raised |-> "none",
        connected |-> IF p.raised # "none" THEN FALSE ELSE p.connected]

(***************************************************************************)
(* MySQLHandler.run_native_query                                           *)
(***************************************************************************)
\* "if not self.check_status(): self.connect()", before the try block
reconnect_always(cs, self) ==
    LET r == connect(cs.w, self)
    IN [w |-> r.w, raised |-> r.raised, trace |-> <<"check_status", "connect">>]

reconnect_wrapped(cs, self) ==
    IF ~cs.connected
    THEN LET r == connect(cs.w, self)
         IN [w |-> r.w, raised |-> IF r.raised # "none" THEN "QueryError" ELSE "none", trace |-> <<"check_status", "connect">>]
    ELSE [w |-> cs.w, raised |-> "none", trace |-> <<"check_status">>]

reconnect(cs, self) ==
    IF ~cs.connected
    THEN LET r == connect(cs.w, self)
         IN [w |-> r.w, raised |-> r.raised, trace |-> <<"check_status", "connect">>]
    ELSE [w |-> cs.w, raised |-> "none", trace |-> <<"check_status">>]

\* the body of "with closing(self.connection) as con"
closing_execute(w, con, query) ==
    IF con # "open"
    THEN [exc |-> "OperationalError", trace |-> <<"cursor", "close">>, kind |-> "none", rows |-> <<>>]
    ELSE LET ex == Execute(w.tables, query)
         IN IF ex.raised
            THEN [exc |-> "ProgrammingError", trace |-> <<"cursor", "USE", "execute", "close">>, kind |-> "none", rows |-> <<>>]
            ELSE [exc |-> "none", trace |-> <<"cursor", "USE", "execute", "fetchall", "commit", "close">>,
                  kind |-> IF ex.hasResult THEN "rows" ELSE "flag", rows |-> ex.rows]

\* the handle when the with block is left, normally or by an exception
closing_exit_on_success_only(con, exc) == IF con = "None" \/ exc = "ProgrammingError" THEN con ELSE "closed"

closing_exit(con, exc) == IF con = "None" THEN "None" ELSE "closed"

\* lines 73-75: wrap whatever the with block raised, or return res
run_return(self, query, before, probe, cn, b, w2) ==
    IF b.exc # "none"
    THEN [w |-> Record(w2, self, Entry("run_native_query", before, "QueryError", b.exc, "none", FALSE, probe, cn.trace \o b.trace, query.kind)),
          raised |-> "QueryError", kind |-> "none", rows |-> <<>>]
    ELSE [w |-> Record(w2, self, Entry("run_native_query", before, "none", "none", b.kind, TRUE, probe, cn.trace \o b.trace, query.kind)),
          raised |-> "none", kind |-> b.kind, rows |-> b.rows]

\* lines 62-72: the with block, left through closing_exit
run_closing(self, query, before, probe, cn, con, b) ==
    run_return(self, query, before, probe, cn, b, [cn.w EXCEPT !.connection[self] = closing_exit(con, b.exc)])

\* an exception of line 61 leaves the method before the try block
run_try(self, query, before, probe, cn) ==
    IF cn.raised # "none"
    THEN [w |-> Record(cn.w, self, Entry("run_native_query", before, cn.raised, "connect", "none", FALSE, probe, cn.trace, query.kind)),
          raised |-> cn.raised, kind |-> "none", rows |-> <<>>]
    ELSE run_closing(self, query, before, probe, cn, cn.w.connection[self], closing_execute(cn.w, cn.w.connection[self], query))

run_probed(self, query, before, cs) ==
    run_try(self, query, before, IF cs.connected THEN "alive" ELSE "dead", reconnect(cs, self))

run_native_query(w, self, query) ==
    run_probed(self, query, w.connection[self], check_status(w, self))

(***************************************************************************)
(* MySQLHandler.select_query                                               *)
(***************************************************************************)
select_query(w, self, targets, from_stmt, where_stmt) ==
    run_native_query(w, self, Query("select", targets, from_stmt[Len(from_stmt)], IF where_stmt # <<>> THEN where_stmt ELSE <<>>))

(***************************************************************************)
(* pandas: DataFrame.from_records and DataFrame.join(other, on=...).       *)
(* A cell is <<v>>, or <<>> for NaN.  join(on=) is a left join that looks  *)
(* the caller's key column up in the index of other, which from_records    *)
(* numbers 0, 1, ...; a column name both frames have gets the suffixes.    *)
(***************************************************************************)
NoFrame == [columns |-> <<>>, records |-> <<>>]

from_records(res) ==
    [columns |-> IF res = <<>> THEN <<>> ELSE SelectSeq(ColumnOrder, LAMBDA c : c \in DOMAIN res[1]),
     records |-> [i \in 1 .. Len(res) |-> [c \in DOMAIN res[i] |-> <<res[i][c]>>]]]

Suffixed(cols, other, suffix) == [i \in 1 .. Len(cols) |-> IF cols[i] \in Range(other) THEN cols[i] \o suffix ELSE cols[i]]

df_join(left, right, on, lsuffix, rsuffix) ==
    IF Len(on) # 1
    THEN [raised |-> "ValueError", df |-> NoFrame]
    ELSE IF on[1] \notin Range(left.columns)
    THEN [raised |-> "KeyError", df |-> NoFrame]
    ELSE LET lcols == Suffixed(left.columns, right.columns, lsuffix)
             rcols == Suffixed(right.columns, left.columns, rsuffix)
             pos(i) == LET key == left.records[i][on[1]]
                       IN IF key # <<>> /\ key[1] \in 0 .. (Len(right.records) - 1) THEN key[1] + 1 ELSE 0
             row(i) == [n \in Range(lcols) \cup Range(rcols) |->
                           IF n \in Range(lcols)
                           THEN left.records[i][left.columns[IndexOf(lcols, n)]]
                           ELSE IF pos(i) = 0 THEN <<>> ELSE right.records[pos(i)][right.columns[IndexOf(rcols, n)]]]
         IN [raised |-> "none", df |-> [columns |-> lcols \o rcols, records |-> [i \in 1 .. Len(left.records) |-> row(i)]]]

(***************************************************************************)
(* MySQLHandler.select_into: appends through an engine of its own          *)
(* (create_engine), not through self.connection.                           *)
(***************************************************************************)
select_into(w, self, table, dataframe, engineOk) ==
    IF w.serverUp /\ engineOk /\ table = DestName /\ w.dest.columns \in {<<>>, dataframe.columns}
    THEN [w |-> [w EXCEPT !.dest = [columns |-> dataframe.columns, records |-> w.dest.records \o dataframe.records]], raised |-> "none"]
    ELSE [w |-> w, raised |-> "PersistenceError"]

(***************************************************************************)
(* MySQLHandler.join                                                       *)
(***************************************************************************)
Intos == {<<>>, <<"">>, <<DestName>>}

Truthy(into) == into # <<>> /\ into[1] # ""

Step(step, on, side) == [step |-> step, on |-> on, side |-> side]

\* "if into: self.select_into(into, df)"
persist_on_other(w, self, data_handler, into, df, engineOk) ==
    IF Truthy(into)
    THEN LET r == select_into(w, data_handler, into[1], df, engineOk)
         IN [w |-> r.w, raised |-> r.raised, steps |-> <<Step("select_into", data_handler, "")>>]
    ELSE [w |-> w, raised |-> "none", steps |-> <<>>]

persist(w, self, data_handler, into, df, engineOk) ==
    IF Truthy(into)
    THEN LET r == select_into(w, self, into[1], df, engineOk)
         IN [w |-> r.w, raised |-> r.raised, steps |-> <<Step("select_into", self, "")>>]
    ELSE [w |-> w, raised |-> "none", steps |-> <<>>]

\* line 119: "return df", reached only when nothing raised
join_return(steps, df, p) ==
    IF p.raised # "none"
    THEN [w |-> p.w, raised |-> p.raised, steps |-> steps \o p.steps, returned |-> FALSE, df |-> NoFrame]
    ELSE [w |-> p.w, raised |-> "none", steps |-> steps \o p.steps, returned |-> TRUE, df |-> df]

\* lines 117-118, after the merge of lines 113-115
join_into(w, self, data_handler, into, engineOk, steps, m) ==
    IF m.raised # "none"
    THEN [w |-> w, raised |-> "MergeError", steps |-> steps, returned |-> FALSE, df |-> NoFrame]
    ELSE join_return(steps, m.df, persist(w, self, data_handler, into, m.df, engineOk))

\* lines 113-115, after the fetch of line 111
join_merge(self, stmt, data_handler, into, engineOk, steps, local_result, external_result) ==
    IF external_result.raised # "none"
    THEN [w |-> external_result.w, raised |-> external_result.raised, steps |-> steps, returned |-> FALSE, df |-> NoFrame]
    ELSE join_into(external_result.w, self, data_handler, into, engineOk, Append(steps, Step("merge", "", "")),
                   df_join(from_records(local_result.rows), from_records(external_result.rows), stmt.targets, "_left", "_right"))

\* line 111, after the fetch of line 110
join_external(self, stmt, data_handler, into, engineOk, steps, local_result) ==
    IF local_result.raised # "none"
    THEN [w |-> local_result.w, raised |-> local_result.raised, steps |-> steps, returned |-> FALSE, df |-> NoFrame]
    ELSE join_merge(self, stmt, data_handler, into, engineOk, Append(steps, Step("select_query", data_handler, "right")), local_result,
                    select_query(local_result.w, data_handler, stmt.targets, stmt.from_table.right, stmt.where))

join(w, self, stmt, data_handler, into, engineOk) ==
    join_external(self, stmt, data_handler, into, engineOk, <<Step("select_query", self, "left")>>,
                  select_query(w, self, stmt.targets, stmt.from_table.left, stmt.where))

NoJoin == [op |-> "none", self |-> "", other |-> "", targets |-> <<>>, where |-> <<>>, into |-> <<>>, raised |-> "none", steps |-> <<>>, returned |-> FALSE, df |-> [columns |-> <<>>, records |-> <<>>]]

Constructed(c) == Entry("__init__", "None", "none", "none", "none", TRUE, "n/a", <<"connect">>, "")

InitHandlers(hs, au) ==
    /\ handlers = hs
    /\ audited = au
    /\ connection = [c \in Connectors |-> IF c \in hs THEN "open" ELSE "None"]
    /\ leaked = [c \in Connectors |-> 0]
    /\ log = [c \in Connectors |-> IF c \in au THEN <<Constructed(c)>> ELSE <<>>]
    /\ quiet = [c \in Connectors |-> TRUE]
    /\ serverUp = TRUE
    /\ dest = [columns |-> <<>>, records |-> <<>>]
    /\ joined = NoJoin

SampleTables == [t \in TableNames |-> IF t = "t1" THEN <<[a |-> 0, b |-> 1]>> ELSE <<[a |-> 1, b |-> 1]>>]

Init ==
    /\ InitHandlers({"h1"}, {"h1"})
    /\ tables = SampleTables

InitJoin ==
    /\ InitHandlers(Connectors, {})
    /\ tables = SampleTables

InitMerge ==
    /\ InitHandlers(Connectors, {})
    /\ tables \in [TableNames -> SeqsUpTo(Rows, MaxRows)]

Install(w) ==
    /\ connection' = w.connection
    /\ leaked' = w.leaked
    /\ log' = w.log
    /\ quiet' = w.quiet
    /\ dest' = w.dest
    /\ UNCHANGED <<handlers, audited, serverUp, tables>>

Connect(c) ==
    /\ connection[c] \in {"open", "lost"} => leaked[c] < MaxLeaked
    /\ LET r == connect(World, c)
       IN Install(Record(r.w, c, Entry("connect", connection[c], r.raised, r.raised, "none", r.raised = "none", "n/a", <<"connect">>, "")))
    /\ UNCHANGED joined

CheckStatus(c) ==
    /\ LET r == check_status(World, c)
       IN Install(Record(r.w, c, Entry("check_status", connection[c], r.raised, r.raised, "bool", r.connected, "n/a", <<"check_status">>, "")))
    /\ UNCHANGED joined

RunQuery(c) ==
    /\ \E q \in Queries : Install(run_native_query(World, c, q).w)
    /\ UNCHANGED joined

ServerDown ==
    /\ serverUp
    /\ serverUp' = FALSE
    /\ connection' = [c \in Connectors |-> IF connection[c] = "open" THEN "lost" ELSE connection[c]]
    /\ quiet' = [c \in Connectors |-> c \notin audited]
    /\ UNCHANGED <<handlers, audited, leaked, log, tables, dest, joined>>

ServerUp ==
    /\ ~serverUp
    /\ serverUp' = TRUE
    /\ UNCHANGED <<handlers, audited, connection, leaked, log, quiet, tables, dest, joined>>

Join(c, d, targets, where, into, engineOk) ==
    LET stmt == [targets |-> targets, from_table |-> [left |-> <<"t1">>, right |-> <<"test", "t2">>], where |-> where]
        r == join(World, c, stmt, d, into, engineOk)
    IN /\ Len(r.w.dest.records) <= MaxDest
       /\ Install(r.w)
       /\ joined' = [op |-> "join", self |-> c, other |-> d, targets |-> targets, where |-> where, into |-> into,
                     raised |-> r.raised, steps |-> r.steps, returned |-> r.returned, df |-> r.df]

Next ==
    \/ \E c \in handlers : Connect(c)
    \/ \E c \in handlers : CheckStatus(c)
    \/ \E c \in handlers : RunQuery(c)
    \/ ServerDown
    \/ ServerUp

Spec == Init /\ [][Next]_vars

NextJoin ==
    \/ \E c \in handlers : CheckStatus(c)
    \/ \E c \in handlers, d \in handlers, targets \in Targets, where \in Wheres, into \in Intos, engineOk \in BOOLEAN :
          (~Truthy(into) => engineOk) /\ Join(c, d, targets, where, into, engineOk)
    \/ ServerDown
    \/ ServerUp

SpecJoin == InitJoin /\ [][NextJoin]_vars

NextMerge ==
    \/ \E c \in handlers : CheckStatus(c)
    \/ \E c \in handlers, d \in handlers, targets \in Targets, where \in Wheres : Join(c, d, targets, where, <<>>, TRUE)
    \/ ServerDown
    \/ ServerUp

SpecMerge == InitMerge /\ [][NextMerge]_vars
(***************************************************************************)
(* Properties.  Last(c) is the latest call made on handler c, Prev(c) the  *)
(* call before it.                                                         *)
(***************************************************************************)
Last(c) == log[c][Len(log[c])]

Prev(c) == log[c][Len(log[c]) - 1]

IsRun(e) == e.op = "run_native_query"

OpenHandles(c) == leaked[c] + (IF connection[c] \in {"open", "lost"} THEN 1 ELSE 0)

\* C1: with the server reachable, run_native_query on a valid statement that
\* yields no result set returns the success flag and does not raise, whatever
\* calls came before.
C1_ValidStatementReturnsFlag ==
    \A c \in audited :
        (IsRun(Last(c)) /\ Last(c).stmt = "ddl" /\ Last(c).up)
            => (Last(c).raised = "none" /\ Last(c).kind = "flag" /\ Last(c).ret)

\* C2: run_native_query probes with check_status first and once; connect is
\* called exactly once, before USE and the query, when the probe says dead,
\* and not at all when it says alive; nothing is executed twice.
C2_ProbeThenAtMostOneConnect ==
    \A c \in audited :
        IsRun(Last(c)) =>
            LET t == Last(c).trace
            IN /\ t[1] = "check_status"
               /\ Count(t, "check_status") = 1
               /\ Last(c).probe = "dead" => (Count(t, "connect") = 1 /\ t[2] = "connect")
               /\ Last(c).probe = "alive" => Count(t, "connect") = 0
               /\ "USE" \in Range(t) => IndexOf(t, "connect") < IndexOf(t, "USE")
               /\ "execute" \in Range(t) => IndexOf(t, "USE") < IndexOf(t, "execute")
               /\ Count(t, "USE") <= 1
               /\ Count(t, "execute") <= 1
               /\ Count(t, "cursor") <= 1

C2_Witness ==
    \E c \in audited :
        /\ IsRun(Last(c))
        /\ Last(c).probe = "dead"
        /\ Last(c).trace = <<"check_status", "connect", "cursor", "USE", "execute", "fetchall", "commit", "close">>

\* C3: check_status called directly after a successful connect (the
\* constructor's included), the server reachable throughout, returns true.
C3_ConnectThenCheckStatusTrue ==
    \A c \in audited :
        (/\ Len(log[c]) = 2
         /\ Prev(c).op \in {"connect", "__init__"}
         /\ Prev(c).raised = "none"
         /\ Last(c).op = "check_status"
         /\ Last(c).quiet)
            => (Last(c).raised = "none" /\ Last(c).ret)

C3_Witness ==
    \E c \in audited :
        /\ Len(log[c]) = 2
        /\ Prev(c).op = "connect"
        /\ Prev(c).raised = "none"
        /\ Last(c).op = "check_status"
        /\ Last(c).quiet
        /\ Last(c).ret

\* C4: after run_native_query raised QueryError on an invalid statement, the
\* next run_native_query with a valid statement, the server reachable,
\* connects again and returns rows or the success flag.
C4_UsableAfterInvalidStatement ==
    \A c \in audited :
        (/\ Len(log[c]) = 2
         /\ IsRun(Prev(c))
         /\ Prev(c).stmt = "bad"
         /\ Prev(c).raised = "QueryError"
         /\ Prev(c).cause = "ProgrammingError"
         /\ IsRun(Last(c))
         /\ Last(c).stmt \in {"ddl", "select"}
         /\ Last(c).up)
            => (/\ Last(c).raised = "none"
                /\ Last(c).kind \in {"flag", "rows"}
                /\ "connect" \in Range(Last(c).trace))

C4_Witness ==
    \E c \in audited :
        /\ Len(log[c]) = 2
        /\ IsRun(Prev(c))
        /\ Prev(c).raised = "QueryError"
        /\ Prev(c).cause = "ProgrammingError"
        /\ IsRun(Last(c))
        /\ Last(c).stmt = "select"
        /\ Last(c).raised = "none"
        /\ Last(c).kind = "rows"

\* C5 as stated: when the probe says dead and the automatic connect fails,
\* the caller of run_native_query gets the wrapped QueryError.
C5_ReconnectFailureIsQueryError ==
    \A c \in audited :
        (IsRun(Last(c)) /\ Last(c).probe = "dead" /\ ~Last(c).up)
            => Last(c).raised = "QueryError"

\* C5 as amended: when the probe says dead and the automatic connect fails,
\* the caller of run_native_query gets the connection exception of connect
\* itself, unwrapped; connect was tried once and nothing was executed.
C5_ReconnectFailureIsRaw ==
    \A c \in audited :
        (IsRun(Last(c)) /\ Last(c).probe = "dead" /\ ~Last(c).up)
            => (/\ Last(c).raised = "ConnectionError"
                /\ Last(c).trace = <<"check_status", "connect">>)

C5_Witness ==
    \E c \in audited :
        /\ IsRun(Last(c))
        /\ Last(c).probe = "dead"
        /\ ~Last(c).up
        /\ Last(c).raised = "ConnectionError"

\* C6: at most one handle opened by a handler is open at any time.
C6_AtMostOneOpenHandle == \A c \in handlers : OpenHandles(c) <= 1

\* C7: check_status never raises and returns a boolean, and it returns false
\* whenever the probe fails (no handle, or one that is closed or lost).
C7_CheckStatusNeverRaises ==
    \A c \in audited :
        Last(c).op = "check_status" =>
            /\ Last(c).raised = "none"
            /\ Last(c).ret \in BOOLEAN
            /\ Last(c).before # "open" => ~Last(c).ret
            /\ ~Last(c).up => ~Last(c).ret

C7_Witness ==
    \E c \in audited :
        /\ Last(c).op = "check_status"
        /\ Last(c).before = "lost"
        /\ Last(c).raised = "none"
        /\ ~Last(c).ret

\* C8: join fetches from self (left) first, then from data_handler (right),
\* then merges, then calls select_into on self, once, exactly when a
\* destination is given and the merge completed; a fetch that raises ends the
\* join with no select_into, and no table is returned when anything raised.
FetchFailed == joined.raised \in {"ConnectionError", "QueryError"}

NamedTargets == joined.targets # <<"*">>

OneMatchingRowEach ==
    /\ Len(tables["t1"]) = 1
    /\ Len(tables["t2"]) = 1
    /\ \A k \in Range(joined.targets) : tables["t1"][1][k] = tables["t2"][1][k]

C9_OneMatchingRowJoined ==
    (/\ joined.op = "join"
     /\ NamedTargets
     /\ joined.where = <<>>
     /\ Len(joined.steps) >= 3
     /\ OneMatchingRowEach)
        => (/\ joined.raised = "none"
            /\ joined.returned
            /\ Len(joined.df.records) = 1
            /\ joined.df.columns = joined.targets
            /\ \A k \in Range(joined.targets) : joined.df.records[1][k] = <<tables["t1"][1][k]>>)

\* C10: check_status and run_native_query leave the handler's handle not
\* open, so the handle is open only while the latest call is a connect, and
\* two check_status calls in a row do not both return true.
C10_ProbeClosesHandle ==
    \A c \in audited :
        /\ Last(c).op \in {"check_status", "run_native_query"} => connection[c] \notin {"open", "lost"}
        /\ connection[c] \in {"open", "lost"} => Last(c).op \in {"connect", "__init__"}
        /\ (Len(log[c]) = 2 /\ Prev(c).op = "check_status" /\ Last(c).op = "check_status")
               => ~(Prev(c).ret /\ Last(c).ret)

C10_Witness ==
    \E c \in audited :
        /\ Len(log[c]) = 2
        /\ Prev(c).op = "check_status"
        /\ Prev(c).ret
        /\ Last(c).op = "check_status"
        /\ ~Last(c).ret
        /\ connection[c] = "closed"
====
